---- MODULE Spec2Model ----
(***************************************************************************)
(* Model of the PII tokenization pipeline:                                 *)
(*   - the Proxy Client      (src/src/data_pipeline/pii/vgs_client.py)     *)
(*   - the Tokenization API  (src/apps/tokenization_api.py)                *)
(*   - the Batch Driver      (src/scripts/tokenize_pii_vgs.py)             *)
(*                                                                         *)
(* JSON texts are sequences of lexical symbols (one symbol stands for one  *)
(* character of the text); JSON values are tagged records [t, v].          *)
(* Two specifications are defined: SpecService (one invocation of the      *)
(* API's tokenize operation, down to the upstream proxy and back) and      *)
(* SpecDriver (one run of the Batch Driver's main).                        *)
(***************************************************************************)
EXTENDS Integers, Sequences, FiniteSets, TLC

VARIABLES
    \* ---- Tokenization API / Proxy Client ----
    spc,        \* position of the tokenize handler: "idle", "sent", "done" ("off": not invoked)
    env,        \* the process environment read by from_env
    req,        \* the TokenizeRequest: [records, batch_key]
    wire,       \* sequence of request bodies posted to the upstream proxy
    upstream,   \* the upstream's answer to the posted request
    tjOut,      \* outcome of VGSClient.tokenize_json
    trOut,      \* outcome of VGSClient.tokenize_records
    httpOut,    \* the HTTP response of the tokenize operation
    \* ---- Batch Driver ----
    pc,         \* position of main: "start", "waiting", "done", "failed" ("off": not run)
    df,         \* the rows read from the input CSV
    batch_size, \* args.batch_size
    i,          \* the loop variable of range(0, len(df), batch_size)
    out_rows,   \* out_rows
    calls,      \* history: [offset, recs, body] of every post_tokenize call, in call order
    resps,      \* history: the answer received for every call, in call order
    outstanding,\* number of post_tokenize calls awaiting their answer
    output,     \* the output CSV: [written, columns, rows]
    printed     \* the row count printed on completion (-1: nothing printed)

svcVars == <<spc, env, req, wire, upstream, tjOut, trOut, httpOut>>
drvVars == <<pc, df, batch_size, i, out_rows, calls, resps, outstanding, output, printed>>
vars == <<spc, env, req, wire, upstream, tjOut, trOut, httpOut,
          pc, df, batch_size, i, out_rows, calls, resps, outstanding, output, printed>>

\* ---------------------------------------------------------------------------
\* Bounds of the model
\* ---------------------------------------------------------------------------
MaxRecs == 2      \* longest records list of a TokenizeRequest
MaxRows == 5      \* most rows of the driver's input CSV
MaxBatch == 3     \* largest --batch-size
LongBody == 203   \* length of the long non-JSON upstream body

Min(a, b) == IF a < b THEN a ELSE b

\* ---------------------------------------------------------------------------
\* JSON values
\* ---------------------------------------------------------------------------
JNum(s) == [t |-> "num", v |-> s]
JStr(s) == [t |-> "str", v |-> s]
JList(xs) == [t |-> "list", v |-> xs]
\* a dict is its items in insertion order: <<key, value>> pairs, keys distinct
JDict(kvs) == [t |-> "dict", v |-> kvs]
NoValue == [t |-> "none", v |-> <<>>]

IsList(x) == x.t = "list"
IsDict(x) == x.t = "dict"

\* `key in d`
HasKey(d, k) == \E j \in 1..Len(d.v) : d.v[j][1] = k

\* d.get(key, default)
DictGet(d, k, default) ==
    IF HasKey(d, k)
    THEN d.v[CHOOSE j \in 1..Len(d.v) : d.v[j][1] = k][2]
    ELSE default

\* d[key] = value on the item list: replace in place, or append
DictSet(kvs, k, x) ==
    IF \E j \in 1..Len(kvs) : kvs[j][1] = k
    THEN [j \in 1..Len(kvs) |-> IF kvs[j][1] = k THEN <<k, x>> ELSE kvs[j]]
    ELSE Append(kvs, <<k, x>>)

\* ---------------------------------------------------------------------------
\* JSON texts: json.dumps / json.loads over lexical symbols
\* ---------------------------------------------------------------------------
NumTok == {"0", "1", "2", "3", "4", "5", "6", "7", "8", "9"}
StrTok == {"records", "batch_key", "x", "", "id", "email", "a@b", "tok", "extra"}

RECURSIVE Encode(_)
RECURSIVE EncodeElems(_)
RECURSIVE EncodeItems(_)
\* the elements of a list, comma separated
EncodeElems(xs) ==
    IF xs = <<>> THEN <<>>
    ELSE IF Len(xs) = 1 THEN Encode(xs[1])
    ELSE Encode(xs[1]) \o <<",">> \o EncodeElems(Tail(xs))
\* the items of a dict, comma separated
EncodeItems(kvs) ==
    IF kvs = <<>> THEN <<>>
    ELSE IF Len(kvs) = 1 THEN <<kvs[1][1], ":">> \o Encode(kvs[1][2])
    ELSE <<kvs[1][1], ":">> \o Encode(kvs[1][2]) \o <<",">> \o EncodeItems(Tail(kvs))
\* json.dumps(x)
Encode(x) ==
    CASE x.t = "num" -> <<x.v>>
      [] x.t = "str" -> <<x.v>>
      [] x.t = "list" -> <<"[">> \o EncodeElems(x.v) \o <<"]">>
      [] x.t = "dict" -> <<"{">> \o EncodeItems(x.v) \o <<"}">>

ParseFail == [ok |-> FALSE, val |-> NoValue, rest |-> <<>>]
ParseOk(x, rest) == [ok |-> TRUE, val |-> x, rest |-> rest]

RECURSIVE ParseValue(_)
RECURSIVE ParseElems(_, _)
RECURSIVE ParseItems(_, _)
\* after "[" or ",": one element, then "," or "]"
ParseElems(toks, acc) ==
    LET r == ParseValue(toks) IN
    IF ~r.ok \/ r.rest = <<>> THEN ParseFail
    ELSE IF Head(r.rest) = "]" THEN ParseOk(JList(Append(acc, r.val)), Tail(r.rest))
    ELSE IF Head(r.rest) = "," THEN ParseElems(Tail(r.rest), Append(acc, r.val))
    ELSE ParseFail
\* after "{" or ",": one key, ":", one value, then "," or "}"
ParseItems(toks, acc) ==
    IF Len(toks) < 2 \/ Head(toks) \notin StrTok \/ toks[2] # ":" THEN ParseFail
    ELSE LET r == ParseValue(Tail(Tail(toks))) IN
         IF ~r.ok \/ r.rest = <<>> THEN ParseFail
         ELSE IF Head(r.rest) = "}"
              THEN ParseOk(JDict(DictSet(acc, Head(toks), r.val)), Tail(r.rest))
         ELSE IF Head(r.rest) = ","
              THEN ParseItems(Tail(r.rest), DictSet(acc, Head(toks), r.val))
         ELSE ParseFail
ParseValue(toks) ==
    IF toks = <<>> THEN ParseFail
    ELSE IF Head(toks) \in NumTok THEN ParseOk(JNum(Head(toks)), Tail(toks))
    ELSE IF Head(toks) \in StrTok THEN ParseOk(JStr(Head(toks)), Tail(toks))
    ELSE IF Head(toks) = "["
         THEN IF Len(toks) >= 2 /\ toks[2] = "]"
              THEN ParseOk(JList(<<>>), Tail(Tail(toks)))
              ELSE ParseElems(Tail(toks), <<>>)
    ELSE IF Head(toks) = "{"
         THEN IF Len(toks) >= 2 /\ toks[2] = "}"
              THEN ParseOk(JDict(<<>>), Tail(Tail(toks)))
              ELSE ParseItems(Tail(toks), <<>>)
    ELSE ParseFail

\* json.loads(text): the whole text must be one value
ParseJSON(text) ==
    LET r == ParseValue(text) IN
    IF r.ok /\ r.rest = <<>> THEN r ELSE ParseFail

\* ---------------------------------------------------------------------------
\* Outcomes of a Python call: a returned value or a raised exception
\* ---------------------------------------------------------------------------
Return(x) == [kind |-> "return", exc |-> "", text |-> <<>>, val |-> x]
Raise(e, msg) == [kind |-> "raise", exc |-> e, text |-> msg, val |-> NoValue]
NotCalled == [kind |-> "none", exc |-> "", text |-> <<>>, val |-> NoValue]

\* an optional Python value: None, or a value s
None == [some |-> FALSE, s |-> ""]
Some(x) == [some |-> TRUE, s |-> x]
\* truth value of an Optional[str]: None and "" are false
Truthy(o) == o.some /\ o.s # ""

\* environment variables: unset, or set to a text
Unset == [set |-> FALSE, text |-> <<>>]
SetTo(txt) == [set |-> TRUE, text |-> txt]

\* ---------------------------------------------------------------------------
\* Proxy Client (vgs_client.py)
\* ---------------------------------------------------------------------------
PrefixLen == 200   \* resp.text[:200]

\* httpx: Response.is_success
IsSuccess(status) == 200 <= status /\ status <= 299

\* resp.text[:200]
TextPrefix(text) == SubSeq(text, 1, Min(PrefixLen, Len(text)))

\* from_env: the client, or the exception raised while reading the environment
from_env(e) ==
    IF ~e.proxy.set \/ e.proxy.text = <<>>
    THEN Raise("RuntimeError", <<"VGS_PROXY_URL is not set">>)
    ELSE LET hasHdrs == e.hdrs.set /\ e.hdrs.text # <<>>
             h == ParseJSON(e.hdrs.text)
         IN IF hasHdrs /\ ~h.ok
            THEN Raise("JSONDecodeError", <<"Expecting value">>)
            ELSE IF e.timeout.set /\ (Len(e.timeout.text) # 1 \/ e.timeout.text[1] \notin NumTok)
            THEN Raise("ValueError", <<"could not convert string to float">>)
            ELSE Return([proxy |-> e.proxy.text,
                         headers |-> IF hasHdrs THEN h.val ELSE JDict(<<>>),
                         timeout |-> IF e.timeout.set THEN e.timeout.text ELSE <<"30">>])

\* a client that never wraps the records
WrappedPayload_AlwaysBare(records, batch_key) == JList(records)

\* line 68: the payload posted upstream
WrappedPayload(records, batch_key) ==
    IF Truthy(batch_key) THEN JDict(<< <<batch_key.s, JList(records)>> >>) ELSE JList(records)

\* a client that decodes the body before it looks at the status
tokenize_json_DecodeFirst(u) ==
    IF u.net = "connect" THEN Raise("HTTPError", <<"ConnectError">>)
    ELSE IF u.net = "timeout" THEN Raise("HTTPError", <<"ReadTimeout">>)
    ELSE LET r == ParseJSON(u.body) IN
         IF ~r.ok
         THEN Raise("ValueError", <<"VGS response was not JSON: ">> \o TextPrefix(u.body))
         ELSE IF ~IsSuccess(u.status) THEN Raise("HTTPError", <<"HTTPStatusError">>)
         ELSE Return(r.val)

\* tokenize_json, from the answer u of the upstream to the posted payload
tokenize_json(u) ==
    IF u.net = "connect" THEN Raise("HTTPError", <<"ConnectError">>)
    ELSE IF u.net = "timeout" THEN Raise("HTTPError", <<"ReadTimeout">>)
    ELSE IF ~IsSuccess(u.status) THEN Raise("HTTPError", <<"HTTPStatusError">>)
    ELSE LET r == ParseJSON(u.body) IN
         IF r.ok THEN Return(r.val)
         ELSE Raise("ValueError", <<"VGS response was not JSON: ">> \o TextPrefix(u.body))

\* lines 70-75: the candidate result taken from the decoded response
ExtractOut(transformed, batch_key) ==
    IF Truthy(batch_key)
    THEN IF ~IsDict(transformed) \/ ~HasKey(transformed, batch_key.s)
         THEN Raise("ValueError", <<"Unexpected VGS response shape for batch_key mode">>)
         ELSE Return(DictGet(transformed, batch_key.s, NoValue))
    ELSE Return(transformed)

\* a client that returns the candidate without checking that it is a list
tokenize_records_NoListCheck(records, tj, batch_key) ==
    IF tj.kind = "raise" THEN tj ELSE ExtractOut(tj.val, batch_key)

\* a client that checks the length of the result against the records sent
tokenize_records_LenCheck(records, tj, batch_key) ==
    IF tj.kind = "raise" THEN tj
    ELSE LET out == ExtractOut(tj.val, batch_key) IN
         IF out.kind = "raise" THEN out
         ELSE IF ~IsList(out.val)
              THEN Raise("ValueError", <<"VGS response is not a list of records">>)
         ELSE IF Len(out.val.v) # Len(records)
              THEN Raise("ValueError", <<"VGS returned a different number of records">>)
              ELSE out

\* tokenize_records after the request was posted: tj is tokenize_json's outcome
tokenize_records(records, tj, batch_key) ==
    IF tj.kind = "raise" THEN tj
    ELSE LET out == ExtractOut(tj.val, batch_key) IN
         IF out.kind = "raise" THEN out
         ELSE IF ~IsList(out.val)
              THEN Raise("ValueError", <<"VGS response is not a list of records">>)
              ELSE out

\* ---------------------------------------------------------------------------
\* Tokenization API (tokenization_api.py)
\* ---------------------------------------------------------------------------
JText(msg) == [t |-> "text", v |-> msg]
NoResponse == [status |-> 0, body |-> NoValue]
HTTPException(status, detail) == [status |-> status, body |-> JDict(<< <<"detail", JText(detail)>> >>)]
\* an exception no handler catches: the server's plain 500 answer
Unhandled == [status |-> 500, body |-> JText(<<"Internal Server Error">>)]

\* pydantic: TokenizeResponse(records=out) accepts a list of dicts only
ValidRecords(out) == IsList(out) /\ \A j \in 1..Len(out.v) : IsDict(out.v[j])

\* lines 44-45
ConfigFailure(c) == HTTPException(500, <<"VGS client init failed: ">> \o c.text)

\* lines 47-51: the response built from tokenize_records' outcome
tokenize(tr) ==
    IF tr.kind = "raise"
    THEN HTTPException(502, <<"VGS tokenization failed: ">> \o tr.text)
    ELSE IF ValidRecords(tr.val)
         THEN [status |-> 200, body |-> JDict(<< <<"records", tr.val>> >>)]
         ELSE Unhandled

\* ---------------------------------------------------------------------------
\* Inputs of the service: requests, environments, upstream answers
\* ---------------------------------------------------------------------------
\* a row of the table as a Record: column names as keys
Rec(n, mail) == JDict(<< <<"id", JNum(n)>>, <<"email", JStr(mail)>> >>)
SampleRecords == {Rec("1", "a@b"), Rec("2", "a@b")}

RECURSIVE SeqsUpTo(_, _)
\* the sequences over S of length at most n
SeqsUpTo(S, n) ==
    IF n = 0 THEN {<<>>}
    ELSE LET shorter == SeqsUpTo(S, n - 1) IN
         shorter \cup {Append(q, x) : q \in shorter, x \in S}

BatchKeys == {None, Some(""), Some("records"), Some("x")}
Requests == [records : SeqsUpTo(SampleRecords, MaxRecs), batch_key : BatchKeys]

\* VGS_HEADERS_JSON, when it is JSON at all, is a JSON object of string
\* headers, the type VGSClient declares for extra_headers
Environments ==
    [proxy : {Unset, SetTo(<<>>), SetTo(<<"https://vgs">>)},
     hdrs : {Unset, SetTo(<<"{", "x", ":", "tok", "}">>), SetTo(<<"{", "x">>)},
     timeout : {Unset, SetTo(<<"5">>), SetTo(<<"x">>)}]

\* what the proxy's aliasing rule does to one record
Alias(r) == JDict(DictSet(r.v, "email", JStr("tok")))
AliasAll(rs) == [j \in 1..Len(rs) |-> Alias(rs[j])]

LongGarbage == [j \in 1..LongBody |-> IF j <= PrefixLen THEN "<" ELSE ">"]

\* the response bodies the upstream may answer a request with
Bodies(r, sent) ==
    LET toks == AliasAll(r.records) IN
    {sent, SubSeq(sent, 1, Len(sent) - 1), sent \o <<"]">>}
    \cup {Encode(WrappedPayload(toks, k)) : k \in BatchKeys}
    \cup {Encode(JDict(<< <<k.s, JList(toks)>> >>)) : k \in BatchKeys \ {None}}
    \cup {Encode(JList(SubSeq(toks, 1, Len(toks) - 1))),
          Encode(JList(Append(toks, Rec("9", "tok")))),
          Encode(JList(<<JNum("1"), JNum("2")>>)),
          Encode(JDict(<< <<"records", JStr("tok")>> >>)),
          Encode(JDict(<< <<"records", JList(<<JNum("1")>>)>> >>)),
          <<"tok">>, <<>>, <<"<", "html", ">">>, LongGarbage}

Answers(r, sent) ==
    {[net |-> n, status |-> 0, body |-> <<>>] : n \in {"connect", "timeout"}}
    \cup {[net |-> "ok", status |-> st, body |-> b] :
              st \in {200, 204, 302, 500}, b \in Bodies(r, sent)}
NoAnswer == [net |-> "none", status |-> 0, body |-> <<>>]

\* ---------------------------------------------------------------------------
\* One invocation of POST /tokenize
\* ---------------------------------------------------------------------------
DriverIdle ==
    /\ pc = "off" /\ df = <<>> /\ batch_size = 1 /\ i = 0 /\ out_rows = <<>>
    /\ calls = <<>> /\ resps = <<>> /\ outstanding = 0
    /\ output = [written |-> FALSE, columns |-> <<>>, rows |-> <<>>] /\ printed = -1

InitService ==
    /\ spc = "idle"
    /\ env \in Environments
    /\ req \in Requests
    /\ wire = <<>>
    /\ upstream = NoAnswer
    /\ tjOut = NotCalled /\ trOut = NotCalled
    /\ httpOut = NoResponse
    /\ DriverIdle

\* lines 42-45: from_env raises, the handler answers at once
InvokeConfigFail ==
    /\ spc = "idle"
    /\ from_env(env).kind = "raise"
    /\ httpOut' = ConfigFailure(from_env(env))
    /\ spc' = "done"
    /\ UNCHANGED <<env, req, wire, upstream, tjOut, trOut>>
    /\ UNCHANGED drvVars

\* lines 43, 48 and vgs_client.py 68-69, 53-54: the payload is posted upstream
InvokeSend ==
    /\ spc = "idle"
    /\ from_env(env).kind = "return"
    /\ wire' = Append(wire, Encode(WrappedPayload(req.records, req.batch_key)))
    /\ spc' = "sent"
    /\ UNCHANGED <<env, req, upstream, tjOut, trOut, httpOut>>
    /\ UNCHANGED drvVars

\* the upstream answers; tokenize_json, tokenize_records and tokenize finish
Respond ==
    /\ spc = "sent"
    /\ \E u \in Answers(req, wire[Len(wire)]) :
        /\ upstream' = u
        /\ tjOut' = tokenize_json(u)
        /\ trOut' = tokenize_records(req.records, tokenize_json(u), req.batch_key)
        /\ httpOut' = tokenize(tokenize_records(req.records, tokenize_json(u), req.batch_key))
    /\ spc' = "done"
    /\ UNCHANGED <<env, req, wire>>
    /\ UNCHANGED drvVars

NextService == InvokeConfigFail \/ InvokeSend \/ Respond
SpecService == InitService /\ [][NextService]_vars

\* ---------------------------------------------------------------------------
\* Properties of the service (checked under SpecService)
\* ---------------------------------------------------------------------------
\* part occurs in msg as a contiguous run
Contains(msg, part) ==
    \E k \in 0..(Len(msg) - Len(part)) : SubSeq(msg, k + 1, k + Len(part)) = part

ClientBuilt == from_env(env).kind = "return"
Answered == spc = "done" /\ ClientBuilt

NetworkError(o) == o.kind = "raise" /\ o.exc = "HTTPError"
DecodeError(o) ==
    /\ o.kind = "raise" /\ o.exc = "ValueError"
    /\ Len(o.text) >= 1 /\ o.text[1] = "VGS response was not JSON: "
ShapeError(o) ==
    /\ o.kind = "raise" /\ o.exc = "ValueError"
    /\ o.text \in {<<"Unexpected VGS response shape for batch_key mode">>,
                   <<"VGS response is not a list of records">>}

\* the value a dict holds at a key
ValueAt(d, k) == d.v[CHOOSE j \in 1..Len(d.v) : d.v[j][1] = k][2]
KeyedShape(d, k) == IsDict(d) /\ \E j \in 1..Len(d.v) : d.v[j][1] = k

\* what the claim requires of the result, for a decoded response d:
\* keyed mode takes the value at the key of a mapping, bare mode takes d
Validated(d, keyed, k, result) ==
    IF keyed /\ ~KeyedShape(d, k) THEN ShapeError(result)
    ELSE LET cand == IF keyed THEN ValueAt(d, k) ELSE d IN
         IF cand.t = "list" THEN result = Return(cand) ELSE ShapeError(result)

\* C5 (as stated): every invocation ends in exactly one of: 500 iff building
\* the client from the environment fails (and then nothing is posted
\* upstream), 502 for every other failure, 200 carrying the sequence returned
\* by tokenize_records otherwise; every failure response carries the text of
\* the underlying error.
C5_ThreeOutcomes ==
    spc = "done" =>
        /\ httpOut.status \in {200, 500, 502}
        /\ httpOut.status = 500 <=> ~ClientBuilt
        /\ ~ClientBuilt =>
              /\ wire = <<>>
              /\ httpOut.body.t = "dict"
              /\ Contains(ValueAt(httpOut.body, "detail").v, from_env(env).text)
        /\ (ClientBuilt /\ trOut.kind = "raise") =>
              /\ httpOut.status = 502
              /\ Contains(ValueAt(httpOut.body, "detail").v, trOut.text)
        /\ (ClientBuilt /\ trOut.kind = "return") =>
              /\ httpOut.status = 200
              /\ httpOut.body = JDict(<< <<"records", trOut.val>> >>)

\* C6 (as stated): with a batch_key given (not None) the decoded response must
\* be a mapping holding that key and the value there is the candidate; with
\* none given the decoded response is the candidate; a candidate that is no
\* sequence is a shape error.
C6_ShapeGiven ==
    (Answered /\ tjOut.kind = "return") =>
        Validated(tjOut.val, req.batch_key.some, req.batch_key.s, trOut)

\* C6 (amended): the same, where "given" means given and not the empty
\* string: None and "" both select the bare mode.
C6_ShapeNonEmpty ==
    (Answered /\ tjOut.kind = "return") =>
        Validated(tjOut.val, req.batch_key.some /\ req.batch_key.s # "",
                  req.batch_key.s, trOut)

\* keyed mode was rejected for a wrong key; bare mode for a non-sequence
C6_Witness ==
    /\ Answered /\ tjOut.kind = "return"
    /\ req.batch_key = Some("records")
    /\ KeyedShape(tjOut.val, "x") /\ ~KeyedShape(tjOut.val, "records")
    /\ trOut.text = <<"Unexpected VGS response shape for batch_key mode">>

\* the request body of a call, decoded
SentPayload == ParseJSON(wire[1]).val
Mapping(k, records) == [t |-> "dict", v |-> << <<k, [t |-> "list", v |-> records]>> >>]
Bare(records) == [t |-> "list", v |-> records]

\* the result the claim allows when the response is parsed keyed / bare
ParsedAs(keyed) ==
    tjOut.kind = "return" => Validated(tjOut.val, keyed, req.batch_key.s, trOut)

\* C7 (as stated): every call posts exactly one request whose body is
\* {batch_key: records} if batch_key is given (not None) and the bare records
\* otherwise; the response is parsed keyed exactly when the request was keyed.
C7_PayloadGiven ==
    /\ (spc \in {"sent", "done"} /\ ClientBuilt) =>
          /\ Len(wire) = 1
          /\ SentPayload = IF req.batch_key.some
                           THEN Mapping(req.batch_key.s, req.records)
                           ELSE Bare(req.records)
    /\ Answered => ParsedAs(SentPayload.t = "dict")

\* C7 (amended): the same, where "given" means given and not the empty string.
C7_PayloadNonEmpty ==
    /\ (spc \in {"sent", "done"} /\ ClientBuilt) =>
          /\ Len(wire) = 1
          /\ SentPayload = IF req.batch_key.some /\ req.batch_key.s # ""
                           THEN Mapping(req.batch_key.s, req.records)
                           ELSE Bare(req.records)
    /\ Answered => ParsedAs(SentPayload.t = "dict")

\* a keyed request of two records was posted and its keyed answer accepted
C7_Witness ==
    /\ Answered
    /\ req.batch_key = Some("records") /\ Len(req.records) = 2
    /\ wire = <<Encode(Mapping("records", req.records))>>
    /\ trOut.kind = "return" /\ trOut.val = ValueAt(tjOut.val, "records")

\* the sequence S of a correctly shaped response, for the mode the request
\* was sent in
ShapedSeq ==
    IF SentPayload.t = "dict"
    THEN IF KeyedShape(tjOut.val, req.batch_key.s)
         THEN ValueAt(tjOut.val, req.batch_key.s) ELSE NoValue
    ELSE tjOut.val

\* C8: when the upstream returns a correctly shaped sequence S,
\* tokenize_records returns exactly S, whatever its length; against a proxy
\* that echoes the request body, the records sent come back unchanged.
C8_ReturnsUnchanged ==
    Answered =>
        /\ (tjOut.kind = "return" /\ ShapedSeq.t = "list") => trOut = Return(ShapedSeq)
        /\ (upstream.net = "ok" /\ upstream.status = 200 /\ upstream.body = wire[1]) =>
              trOut = Return(Bare(req.records))

\* a sequence longer than the one sent was returned as it came
C8_Witness ==
    /\ Answered
    /\ trOut.kind = "return"
    /\ Len(trOut.val.v) = Len(req.records) + 1
    /\ trOut.val = ShapedSeq

\* C9: tokenize_json raises a network error when the connection fails, the
\* call times out or the status is not 2xx (whatever the body is); raises a
\* decode error carrying the first 200 characters of the body when a 2xx body
\* is not JSON; and returns the decoded value otherwise.
C9_ThreeOutcomes ==
    Answered =>
        LET u == upstream
            reached == u.net = "ok"
            success == reached /\ u.status >= 200 /\ u.status < 300
            first200 == IF Len(u.body) <= 200 THEN u.body ELSE SubSeq(u.body, 1, 200)
        IN /\ ~success => NetworkError(tjOut)
           /\ (success /\ ~ParseJSON(u.body).ok) =>
                 DecodeError(tjOut) /\ Contains(tjOut.text, first200)
           /\ (success /\ ParseJSON(u.body).ok) => tjOut = Return(ParseJSON(u.body).val)

\* a 2xx body of more than 200 characters that is not JSON was reported
C9_Witness ==
    /\ Answered
    /\ upstream.status = 200 /\ Len(upstream.body) > 200
    /\ DecodeError(tjOut)
    /\ Len(tjOut.text) = 201

\* ---------------------------------------------------------------------------
\* Batch Driver (tokenize_pii_vgs.py)
\* ---------------------------------------------------------------------------
Columns == <<"id", "email">>
Digits == <<"1", "2", "3", "4", "5", "6", "7", "8", "9">>
\* the input table of n rows: row k is <<id k, an e-mail address>>
Table(n) == [k \in 1..n |-> <<JNum(Digits[k]), JStr("a@b")>>]

NoFile == [written |-> FALSE, columns |-> <<>>, rows |-> <<>>]

\* chunk.to_dict(orient="records") for one row
to_dict(row) == JDict([c \in 1..Len(Columns) |-> <<Columns[c], row[c]>>])

\* a slice that runs one row too far
Chunk_OneTooFar(rows, lo, b) ==
    LET hi == Min(lo + b + 1, Len(rows)) IN
    [j \in 1..(hi - lo) |-> to_dict(rows[lo + j])]

\* df.iloc[i:i+batch_size], then to_dict: lines 43-44
Chunk(rows, lo, b) ==
    LET hi == Min(lo + b, Len(rows)) IN
    [j \in 1..(hi - lo) |-> to_dict(rows[lo + j])]

\* a loop that does not advance
RangeNext_Stuck(lo, b) == lo

\* range(0, len(df), batch_size): the next value, and whether it is in range
RangeNext(lo, b) == lo + b
InRange(lo, n) == lo < n

\* lines 21-23: the body post_tokenize posts
Payload(records, batch_key) ==
    IF Truthy(batch_key)
    THEN JDict(<< <<"records", JList(records)>>, <<"batch_key", JStr(batch_key.s)>> >>)
    ELSE JDict(<< <<"records", JList(records)>> >>)

\* lines 43-45 and 21-25: the call main makes for the batch at offset lo
\* (main passes no batch_key)
Call(rows, lo, b) ==
    [offset |-> lo,
     recs |-> Chunk(rows, lo, b),
     body |-> Encode(Payload(Chunk(rows, lo, b), None))]

\* a post_tokenize that falls back to the records sent
post_tokenize_EchoDefault(records, u) ==
    IF u.net = "connect" THEN Raise("HTTPError", <<"ConnectError">>)
    ELSE IF u.net = "timeout" THEN Raise("HTTPError", <<"ReadTimeout">>)
    ELSE IF ~IsSuccess(u.status) THEN Raise("HTTPError", <<"HTTPStatusError">>)
    ELSE LET r == ParseJSON(u.body) IN
         IF ~r.ok THEN Raise("JSONDecodeError", <<"Expecting value">>)
         ELSE IF ~IsDict(r.val) THEN Raise("AttributeError", <<"no attribute 'get'">>)
         ELSE Return(DictGet(r.val, "records", JList(records)))

\* lines 25-28: post_tokenize, from the answer u to the posted body
post_tokenize(records, u) ==
    IF u.net = "connect" THEN Raise("HTTPError", <<"ConnectError">>)
    ELSE IF u.net = "timeout" THEN Raise("HTTPError", <<"ReadTimeout">>)
    ELSE IF ~IsSuccess(u.status) THEN Raise("HTTPError", <<"HTTPStatusError">>)
    ELSE LET r == ParseJSON(u.body) IN
         IF ~r.ok THEN Raise("JSONDecodeError", <<"Expecting value">>)
         ELSE IF ~IsDict(r.val) THEN Raise("AttributeError", <<"no attribute 'get'">>)
         ELSE Return(DictGet(r.val, "records", JList(<<>>)))

\* a check that only rejects answers that are too short
LenMismatch_OnlyShort(toks, recs) == Len(toks) < Len(recs)

\* line 46: len(toks) != len(recs)
LenMismatch(toks, recs) == Len(toks) # Len(recs)

\* an accumulation that puts the newest batch first
Extend_Prepend(rows, toks) == toks \o rows

\* line 48: out_rows.extend(toks)
Extend(rows, toks) == rows \o toks

\* lines 45-47: the batch failed (post_tokenize raised, len() raised, or the
\* lengths differ)
BatchFails(recs, u) ==
    LET t == post_tokenize(recs, u) IN
    \/ t.kind = "raise"
    \/ ~IsList(t.val)
    \/ LenMismatch(t.val.v, recs)

RECURSIVE AddColumns(_, _)
\* the columns of pd.DataFrame(records): keys in order of first appearance
AddColumns(cols, kvs) ==
    IF kvs = <<>> THEN cols
    ELSE AddColumns(IF \E c \in 1..Len(cols) : cols[c] = kvs[1][1]
                    THEN cols ELSE Append(cols, kvs[1][1]), Tail(kvs))
RECURSIVE ColumnsOf(_, _)
ColumnsOf(cols, records) ==
    IF records = <<>> THEN cols
    ELSE ColumnsOf(AddColumns(cols, records[1].v), Tail(records))

\* line 50: pd.DataFrame(out_rows).to_csv(args.output)
to_csv(records) ==
    LET cols == ColumnsOf(<<>>, records) IN
    [written |-> TRUE,
     columns |-> cols,
     rows |-> [r \in 1..Len(records) |->
                  [c \in 1..Len(cols) |-> DictGet(records[r], cols[c], JStr(""))]]]

\* the bodies the Tokenization API (or whatever listens at api_url) may answer
\* a batch with
DriverBodies(recs) ==
    LET toks == AliasAll(recs)
        keyed(x) == Encode(JDict(<< <<"records", x>> >>))
    IN {keyed(JList(toks)),
        keyed(JList([j \in 1..Len(toks) |-> toks[Len(toks) + 1 - j]])),
        keyed(JList(SubSeq(toks, 1, Len(toks) - 1))),
        keyed(JList(Append(toks, Rec("9", "tok")))),
        keyed(JList(<<>>)),
        keyed(JNum("1")),
        Encode(JDict(<< <<"x", JList(toks)>> >>)),
        Encode(JDict(<< <<"detail", JStr("extra")>> >>)),
        Encode(JDict(<<>>)),
        Encode(JList(toks)),
        <<"<", "html", ">">>}

DriverAnswers(recs) ==
    {[net |-> n, status |-> 0, body |-> <<>>] : n \in {"connect", "timeout"}}
    \cup {[net |-> "ok", status |-> st, body |-> b] :
              st \in {200, 502}, b \in DriverBodies(recs)}

ServiceIdle ==
    /\ spc = "off" /\ wire = <<>> /\ upstream = NoAnswer
    /\ env = [proxy |-> Unset, hdrs |-> Unset, timeout |-> Unset]
    /\ req = [records |-> <<>>, batch_key |-> None]
    /\ tjOut = NotCalled /\ trOut = NotCalled /\ httpOut = NoResponse

InitDriver ==
    /\ pc = "start"
    /\ df \in {Table(n) : n \in 0..MaxRows}
    /\ batch_size \in 1..MaxBatch
    /\ i = 0
    /\ out_rows = <<>>
    /\ calls = <<>> /\ resps = <<>> /\ outstanding = 0
    /\ output = NoFile /\ printed = -1
    /\ ServiceIdle

\* lines 39-42 and 50-52 on an empty table: the loop body never runs
StartEmpty ==
    /\ pc = "start"
    /\ ~InRange(0, Len(df))
    /\ output' = to_csv(out_rows)
    /\ printed' = Len(out_rows)
    /\ pc' = "done"
    /\ UNCHANGED <<df, batch_size, i, out_rows, calls, resps, outstanding>>
    /\ UNCHANGED svcVars

\* lines 39-45: the first batch is posted
StartSubmit ==
    /\ pc = "start"
    /\ InRange(0, Len(df))
    /\ i' = 0
    /\ calls' = Append(calls, Call(df, 0, batch_size))
    /\ outstanding' = outstanding + 1
    /\ pc' = "waiting"
    /\ UNCHANGED <<df, batch_size, out_rows, resps, output, printed>>
    /\ UNCHANGED svcVars

\* lines 45-47: the answer makes the batch fail; the exception ends the run
RespondFail ==
    /\ pc = "waiting"
    /\ \E u \in DriverAnswers(calls[Len(calls)].recs) :
        /\ BatchFails(calls[Len(calls)].recs, u)
        /\ resps' = Append(resps, u)
    /\ outstanding' = outstanding - 1
    /\ pc' = "failed"
    /\ UNCHANGED <<df, batch_size, i, out_rows, calls, output, printed>>
    /\ UNCHANGED svcVars

\* lines 45-48, then 42-45: the batch is accepted and the next one posted
RespondNext ==
    /\ pc = "waiting"
    /\ InRange(RangeNext(i, batch_size), Len(df))
    /\ \E u \in DriverAnswers(calls[Len(calls)].recs) :
        /\ ~BatchFails(calls[Len(calls)].recs, u)
        /\ resps' = Append(resps, u)
        /\ out_rows' = Extend(out_rows, post_tokenize(calls[Len(calls)].recs, u).val.v)
    /\ i' = RangeNext(i, batch_size)
    /\ calls' = Append(calls, Call(df, RangeNext(i, batch_size), batch_size))
    /\ outstanding' = outstanding - 1 + 1
    /\ pc' = "waiting"
    /\ UNCHANGED <<df, batch_size, output, printed>>
    /\ UNCHANGED svcVars

\* lines 45-48, then 50-52: the last batch is accepted and the output written
RespondLast ==
    /\ pc = "waiting"
    /\ ~InRange(RangeNext(i, batch_size), Len(df))
    /\ \E u \in DriverAnswers(calls[Len(calls)].recs) :
        /\ ~BatchFails(calls[Len(calls)].recs, u)
        /\ resps' = Append(resps, u)
        /\ out_rows' = Extend(out_rows, post_tokenize(calls[Len(calls)].recs, u).val.v)
        /\ output' = to_csv(Extend(out_rows, post_tokenize(calls[Len(calls)].recs, u).val.v))
        /\ printed' = Len(Extend(out_rows, post_tokenize(calls[Len(calls)].recs, u).val.v))
    /\ outstanding' = outstanding - 1
    /\ pc' = "done"
    /\ UNCHANGED <<df, batch_size, i, calls>>
    /\ UNCHANGED svcVars

NextDriver == StartEmpty \/ StartSubmit \/ RespondFail \/ RespondNext \/ RespondLast
SpecDriver == InitDriver /\ [][NextDriver]_vars

\* ---------------------------------------------------------------------------
\* Properties of the Batch Driver (checked under SpecDriver)
\* ---------------------------------------------------------------------------
\* ceil(n / b)
CeilDiv(n, b) == (n + b - 1) \div b

\* the Record of input row r (1-based): column names as keys
RowRecord(r) ==
    [t |-> "dict", v |-> << <<"id", df[r][1]>>, <<"email", df[r][2]>> >>]

RECURSIVE Flatten(_)
\* the concatenation of a sequence of sequences
Flatten(ss) == IF ss = <<>> THEN <<>> ELSE Head(ss) \o Flatten(Tail(ss))

SentBatches == [k \in 1..Len(calls) |-> calls[k].recs]

\* the records an answer carries under "records"
RecordsOf(u) == ValueAt(ParseJSON(u.body).val, "records").v

\* an answer is good for a batch: it arrived, 2xx, JSON, a mapping whose
\* "records" is a sequence as long as the batch
GoodAnswer(u, recs) ==
    /\ u.net = "ok" /\ u.status >= 200 /\ u.status <= 299
    /\ ParseJSON(u.body).ok
    /\ KeyedShape(ParseJSON(u.body).val, "records")
    /\ ValueAt(ParseJSON(u.body).val, "records").t = "list"
    /\ Len(RecordsOf(u)) = Len(recs)

\* C1: the k-th call (k from 0) carries rows [k*b, min((k+1)*b, n)); every
\* batch has 1..b rows and every batch but the last exactly b; the calls are
\* issued in input order, never more than ceil(n/b) of them, and a loop that
\* runs to its end has issued exactly ceil(n/b) calls whose batches
\* concatenated are the input rows in order.
C1_Partition ==
    LET n == Len(df)
        b == batch_size
    IN /\ Len(calls) <= CeilDiv(n, b)
       /\ \A k \in 1..Len(calls) :
            LET lo == (k - 1) * b
                hi == IF k * b < n THEN k * b ELSE n
            IN /\ calls[k].offset = lo
               /\ Len(calls[k].recs) = hi - lo
               /\ \A j \in 1..(hi - lo) : calls[k].recs[j] = RowRecord(lo + j)
               /\ ParseJSON(calls[k].body).val = Mapping("records", calls[k].recs)
               /\ Len(calls[k].recs) >= 1 /\ Len(calls[k].recs) <= b
               /\ k < CeilDiv(n, b) => Len(calls[k].recs) = b
       /\ pc = "done" =>
            /\ Len(calls) = CeilDiv(n, b)
            /\ Flatten(SentBatches) = [r \in 1..n |-> RowRecord(r)]

\* five rows in batches of two: three calls of sizes 2, 2, 1
C1_Witness ==
    /\ pc = "done" /\ Len(df) = 5 /\ batch_size = 2
    /\ Len(calls) = 3
    /\ Len(calls[1].recs) = 2 /\ Len(calls[2].recs) = 2 /\ Len(calls[3].recs) = 1

\* C2: the output is written only when every batch was submitted and every
\* answer was good and as long as its batch; once any batch call fails the
\* run has failed and no output file exists.
C2_NoPartialOutput ==
    /\ output.written =>
          /\ pc = "done"
          /\ Len(calls) = CeilDiv(Len(df), batch_size)
          /\ Len(resps) = Len(calls)
          /\ \A k \in 1..Len(calls) : GoodAnswer(resps[k], calls[k].recs)
    /\ (\E k \in 1..Len(resps) : ~GoodAnswer(resps[k], calls[k].recs)) =>
          pc = "failed" /\ ~output.written
    /\ pc = "failed" => ~output.written /\ printed = -1

\* a run failed after earlier batches had succeeded, and wrote nothing
C2_Witness ==
    /\ pc = "failed"
    /\ Len(resps) >= 2 /\ out_rows # <<>>
    /\ resps[Len(resps)].status = 200
    /\ KeyedShape(ParseJSON(resps[Len(resps)].body).val, "records")
    /\ ValueAt(ParseJSON(resps[Len(resps)].body).val, "records").t = "list"
    /\ Len(RecordsOf(resps[Len(resps)])) = Len(calls[Len(resps)].recs) - 1
    /\ output = NoFile

\* C3: on success the written output is the concatenation, in batch order, of
\* the record sequences the answers carried, and the row count written and
\* reported equals the number of input rows.
C3_OutputIsConcatenation ==
    pc = "done" =>
        LET all == Flatten([k \in 1..Len(resps) |-> RecordsOf(resps[k])]) IN
        /\ out_rows = all
        /\ output.written
        /\ Len(output.rows) = Len(all)
        /\ \A r \in 1..Len(all) : \A c \in 1..Len(output.columns) :
              KeyedShape(all[r], output.columns[c]) =>
                  output.rows[r][c] = ValueAt(all[r], output.columns[c])
        /\ \A r \in 1..Len(all) : \A j \in 1..Len(all[r].v) :
              \E c \in 1..Len(output.columns) : output.columns[c] = all[r].v[j][1]
        /\ printed = Len(all)
        /\ printed = Len(df)

\* a run of several batches succeeded, one answer in an order of its own
C3_Witness ==
    /\ pc = "done" /\ Len(resps) >= 2 /\ Len(df) >= 4
    /\ \E k \in 1..Len(resps) :
          /\ Len(RecordsOf(resps[k])) >= 2
          /\ ValueAt(RecordsOf(resps[k])[1], "id") # ValueAt(calls[k].recs[1], "id")
    /\ printed = Len(df)

\* C4, in every state: at most one call is outstanding; call k+1 exists only
\* once the answer to call k has arrived and passed the length check; no
\* batch is submitted twice; a failed run has nothing outstanding.
C4_State ==
    /\ outstanding \in {0, 1}
    /\ Len(calls) = Len(resps) + outstanding
    /\ \A k \in 1..Len(calls) : \A m \in 1..Len(calls) :
          k < m => calls[k].offset < calls[m].offset
    /\ \A k \in 1..Len(calls) :
          k < Len(calls) => (k <= Len(resps) /\ GoodAnswer(resps[k], calls[k].recs))
    /\ (\E k \in 1..Len(resps) : ~GoodAnswer(resps[k], calls[k].recs)) =>
          pc = "failed" /\ outstanding = 0
\* C4, in every step: a call is submitted only while none is outstanding or
\* as the outstanding one is answered; calls are only ever appended, one at a
\* time; after a failure no call is submitted.
C4_Step ==
    /\ calls' # calls =>
          /\ Len(calls') = Len(calls) + 1
          /\ SubSeq(calls', 1, Len(calls)) = calls
          /\ outstanding = 0 \/ Len(resps') = Len(resps) + 1
    /\ pc = "failed" => (calls' = calls /\ pc' = "failed")
\* C4: batches are processed strictly one at a time, each at most once, with
\* no retry and no submission after the first failure.
C4_Sequential == [](C4_State) /\ [][C4_Step]_vars

\* a run stopped at a failing batch with later batches never submitted
C4_Witness ==
    /\ pc = "failed"
    /\ Len(calls) = 2 /\ Len(resps) = 2
    /\ CeilDiv(Len(df), batch_size) >= 3
    /\ resps[2].net = "timeout"

\* an answer that is a 2xx mapping without "records"
LacksRecords(u) ==
    /\ u.net = "ok" /\ u.status >= 200 /\ u.status <= 299
    /\ ParseJSON(u.body).ok
    /\ ParseJSON(u.body).val.t = "dict"
    /\ ~KeyedShape(ParseJSON(u.body).val, "records")

\* C10: for a 2xx answer without "records" post_tokenize yields the empty
\* sequence; every submitted batch is non-empty, so the length check fails:
\* such an answer never leads to a successful run or to written output.
C10_MissingRecordsFails ==
    /\ \A k \in 1..Len(calls) : Len(calls[k].recs) >= 1
    /\ \A k \in 1..Len(resps) :
          LacksRecords(resps[k]) =>
              /\ post_tokenize(calls[k].recs, resps[k]) = Return([t |-> "list", v |-> <<>>])
              /\ pc = "failed"
              /\ ~output.written

\* a second batch was answered without "records" and the run failed
C10_Witness ==
    /\ Len(resps) = 2
    /\ LacksRecords(resps[2])
    /\ pc = "failed" /\ output = NoFile /\ out_rows # <<>>

====
